---- MODULE Spec2Model ----
(***************************************************************************)
(* Content-aware image width resizing by seam carving, as implemented in   *)
(* src/src/contentAwareResize.ts: ResizeImageWidth, calculateEnergyMap,    *)
(* getPixelEnergy, getPixel, matrix and findLowEnergySeam.  deleteSeam is  *)
(* called by ResizeImageWidth but is defined nowhere, so the call throws a *)
(* ReferenceError.                                                         *)
(*                                                                         *)
(* Arrays indexed from 0 in the source are functions with domain 0..n-1.   *)
(* The pixel buffer (ImageData.data) and the seam (built with push) are    *)
(* sequences, so element k of the source is element k+1 here.              *)
(***************************************************************************)
EXTENDS Integers, Sequences, FiniteSets

\* ---------------------------------------------------------------- bounds
\* Largest image width and height explored.
MaxW == 3
MaxH == 2
\* Largest energy-map height given to findLowEnergySeam on its own.
MaxMapH == 3
\* Target widths range over -MaxUnder .. MaxW + 1.
MaxUnder == 2

\* Colors the explored images are painted with: [r, g, b, a].  The two
\* differ in every channel and their squared RGB distance is 13 * 13.
Palette == { <<0, 0, 0, 255>>, <<3, 4, 12, 7>> }

\* Energies the explored energy maps are filled with (finite numbers).
EnergyValues == {0, 1}

VARIABLES
    img,                \* ImageData: [width, height, data]
    size,               \* ImageSize: [w, h]
    toWidth,            \* requested width
    pxToRemove,         \* img.width - toWidth
    i,                  \* loop counter of ResizeImageWidth
    energyMap,          \* EnergyMap | null, as <<map>> or << >>
    seam,               \* Seam | null, as <<seam>> or << >>
    seamEnergies,       \* findLowEnergySeam's table of SeamPixelMeta
    lastMinCoordinate,  \* findLowEnergySeam's backtracking start
    orig,               \* img.data as it was when the operation was called
    err,                \* message/kind of the exception thrown, or NoError
    pc                  \* position of the running operation

vars == <<img, size, toWidth, pxToRemove, i, energyMap, seam, seamEnergies,
          lastMinCoordinate, orig, err, pc>>

\* ------------------------------------------------------------ exceptions
NoError == "none"
\* throw new Error('Upsizing is not supported for now.')
UnsupportedOperation == "Upsizing is not supported for now."
\* Destructuring null, or indexing undefined.
TypeError == "TypeError"
\* new Array(w) with w < 0.
RangeError == "RangeError"
\* Calling deleteSeam, an identifier that is bound nowhere.
ReferenceError == "ReferenceError"

\* ------------------------------------------------------------ null values
\* A right/left neighbour that is absent (Color | null).
NoPixel == << >>
\* Coordinate | null.
NoCoordinate == [x |-> -1, y |-> -1]
\* Number.POSITIVE_INFINITY: above every energy the explored inputs reach.
Infinity == 1000000

Coordinate(cx, cy) == [x |-> cx, y |-> cy]

\* ---------------------------------------------------------------- matrix
\* new Array(h).fill(null).map(() => new Array(w).fill(filler)):
\* the map callback runs once per row, and new Array(w) throws for w < 0.
matrixThrows(w, h) == h >= 1 /\ w < 0

matrix(w, h, filler) == [y \in 0..(h - 1) |-> [x \in 0..(w - 1) |-> filler]]

\* -------------------------------------------------------------- getPixel
Min(a, b) == IF a < b THEN a ELSE b

\* TypedArray.subarray(begin, end) for 0 <= begin <= end, clamped to length.
subarray(data, begin, end) ==
    SubSeq(data, Min(begin, Len(data)) + 1, Min(end, Len(data)))

cellsPerColor == 4

getPixel(image, x, y) ==
    LET k == y * image.width + x
    IN  subarray(image.data, k * cellsPerColor, k * cellsPerColor + cellsPerColor)

\* -------------------------------------------------------- getPixelEnergy
\* Math.sqrt(n) for an integer n >= 0.  The root of a perfect square is
\* that integer.  Any other root is irrational; it is kept exactly, as the
\* number whose square is n: [sqrt |-> n] stands for the value Math.sqrt(n).
\* No sum or comparison of such a value is defined here, and none is
\* needed: a map that calculateEnergyMap returns holds only Sqrt(0), since
\* a row with a second column makes getPixelEnergy throw.
IsSquare(n) == \E r \in 0..n : r * r = n

Sqrt(n) == IF IsSquare(n) THEN CHOOSE r \in 0..n : r * r = n ELSE [sqrt |-> n]

Sq(d) == d * d

ColorDistance(p, middle) ==
    Sq(p[1] - middle[1]) + Sq(p[2] - middle[2]) + Sq(p[3] - middle[3])

\* Both contributions are guarded by `if (left)`.  When left is present and
\* right is null, `const [rR, rG, rB] = right` throws a TypeError.
getPixelEnergy(left, middle, right) ==
    LET lEnergy == IF left # NoPixel THEN ColorDistance(left, middle) ELSE 0
    IN  IF left # NoPixel
        THEN IF right = NoPixel
             THEN [err |-> TypeError, val |-> 0]
             ELSE [err |-> NoError,
                   val |-> Sqrt(lEnergy + ColorDistance(right, middle))]
        ELSE [err |-> NoError, val |-> Sqrt(lEnergy + 0)]

\* ---------------------------------------------------- calculateEnergyMap
leftPixel(image, x, y) == IF x - 1 >= 0 THEN getPixel(image, x - 1, y) ELSE NoPixel

rightPixel(image, x, y, w) == IF x + 1 < w THEN getPixel(image, x + 1, y) ELSE NoPixel

cellEnergy(image, x, y, w) ==
    getPixelEnergy(leftPixel(image, x, y), getPixel(image, x, y),
                   rightPixel(image, x, y, w))

\* The result is [err, map]; an exception thrown by matrix or by any
\* getPixelEnergy call leaves the function without a map.
calculateEnergyMap(image, w, h) ==
    IF matrixThrows(w, h)
    THEN [err |-> RangeError, map |-> << >>]
    ELSE IF \E y \in 0..(h - 1) : \E x \in 0..(w - 1) :
                cellEnergy(image, x, y, w).err # NoError
         THEN [err |-> TypeError, map |-> << >>]
         ELSE [err |-> NoError,
               map |-> [y \in 0..(h - 1) |->
                          [x \in 0..(w - 1) |-> cellEnergy(image, x, y, w).val]]]

\* ----------------------------------------------------- findLowEnergySeam
\* The strict comparison of lines 154 and 174: a later candidate replaces
\* the current minimum only when it is strictly lower.
EnergyLessOrEqual(a, b) == a <= b

EnergyLess(a, b) == a < b

\* An array is a stored value: it is built once and then read, never
\* recomputed on a read.
stored(array) == IF array = << >> THEN array ELSE array

\* First row: the energy is copied; the coordinate is written {x: 0, y: col}.
firstRow(map, w) == stored(
    [col \in 0..(w - 1) |->
        [energy |-> map[0][col],
         coordinate |-> Coordinate(0, col),
         previous |-> NoCoordinate]])

\* One turn of `for (let i = x - 1; i <= x + 1; i++)`.
prevStep(prevRow, w, acc, k) ==
    IF k >= 0 /\ k < w /\ EnergyLess(prevRow[k].energy, acc.energy)
    THEN [energy |-> prevRow[k].energy, x |-> k]
    ELSE acc

\* minPrevEnergy and minPrevX after the three turns, from (Infinity, x).
minPrev(prevRow, w, x) ==
    prevStep(prevRow, w,
        prevStep(prevRow, w,
            prevStep(prevRow, w, [energy |-> Infinity, x |-> x], x - 1),
            x),
        x + 1)

nextRow(prevRow, map, w, y) == stored(
    [x \in 0..(w - 1) |->
        LET m == minPrev(prevRow, w, x)
        IN  [energy |-> m.energy + map[y][x],
             coordinate |-> Coordinate(x, y),
             previous |-> Coordinate(m.x, y - 1)]])

\* The filled table, rows 0..h-1 (h >= 1).
RECURSIVE populate(_, _, _)
populate(map, w, y) ==
    IF y = 0
    THEN stored([r \in {0} |-> firstRow(map, w)])
    ELSE LET above == populate(map, w, y - 1)
             row   == nextRow(above[y - 1], map, w, y)
         IN  stored([r \in 0..y |-> IF r < y THEN above[r] ELSE row])

\* `for (let x = 0; x < w; x++)` over the last row, from (Infinity, null).
RECURSIVE scanLastRow(_, _, _, _, _)
scanLastRow(row, w, y, x, acc) ==
    IF x >= w
    THEN acc
    ELSE scanLastRow(row, w, y, x + 1,
            IF EnergyLess(row[x].energy, acc.energy)
            THEN [energy |-> row[x].energy, coordinate |-> Coordinate(x, y)]
            ELSE acc)

\* `while (currentSeam)`: pushes the stored coordinate, then follows previous.
RECURSIVE backtrack(_, _)
backtrack(table, currentSeam) ==
    <<currentSeam.coordinate>> \o
        (IF currentSeam.previous = NoCoordinate
         THEN << >>
         ELSE backtrack(table,
                  table[currentSeam.previous.y][currentSeam.previous.x]))

\* The result is [err, seam] together with the two locals the seam is read
\* from.  With h = 0 and w >= 1 the first loop indexes seamEnergies[0],
\* which is undefined, and throws.
findLowEnergySeam(map, w, h) ==
    IF matrixThrows(w, h)
    THEN [err |-> RangeError, seam |-> << >>, seamEnergies |-> << >>,
          lastMinCoordinate |-> NoCoordinate]
    ELSE IF w >= 1 /\ h = 0
    THEN [err |-> TypeError, seam |-> << >>, seamEnergies |-> << >>,
          lastMinCoordinate |-> NoCoordinate]
    ELSE IF w <= 0 \/ h = 0
    THEN [err |-> NoError, seam |-> << >>,
          seamEnergies |-> matrix(w, h, NoCoordinate),
          lastMinCoordinate |-> NoCoordinate]
    ELSE LET table == populate(map, w, h - 1)
             last  == scanLastRow(table[h - 1], w, h - 1, 0,
                          [energy |-> Infinity, coordinate |-> NoCoordinate])
             c     == last.coordinate
         IN  [err |-> NoError,
              seam |-> IF c = NoCoordinate THEN << >>
                       ELSE backtrack(table, table[c.y][c.x]),
              seamEnergies |-> table,
              lastMinCoordinate |-> c]

\* ---------------------------------------------------------------- inputs
\* The buffer of an image whose pixel k (row-major) has the color f[k].
DataOf(f, n) ==
    [k \in 1..(n * cellsPerColor) |->
        f[(k - 1) \div cellsPerColor][((k - 1) % cellsPerColor) + 1]]

\* An ImageData has width >= 1 and height >= 1 and a buffer of
\* width * height * 4 bytes.
ImagesOf(W, H) ==
    { [width |-> W, height |-> H, data |-> DataOf(f, W * H)] :
        f \in [0..(W * H - 1) -> Palette] }

EnergyMapsOf(w, h) == [0..(h - 1) -> [0..(w - 1) -> EnergyValues]]

ToWidths == (0 - MaxUnder)..(MaxW + 1)

\* --------------------------------------------------------- ResizeImageWidth
IsUpsizingOffByOne(px) == px < 0 - 1

\* `if (pxToRemove < 0)`
IsUpsizing(px) == px < 0

LoopContinuesInclusive(k, px) == k <= px

\* `i < pxToRemove`
LoopContinues(k, px) == k < px

InitResize ==
    /\ \E W \in 1..MaxW, H \in 1..MaxH : img \in ImagesOf(W, H)
    /\ toWidth \in ToWidths
    /\ size = [w |-> 0, h |-> 0]
    /\ pxToRemove = 0
    /\ i = 0
    /\ energyMap = << >>
    /\ seam = << >>
    /\ seamEnergies = << >>
    /\ lastMinCoordinate = NoCoordinate
    /\ orig = img.data
    /\ err = NoError
    /\ pc = "start"

\* Lines 39-48: the size is read, the request is checked, the locals are set.
ResizeEnter ==
    /\ pc = "start"
    /\ size' = [w |-> img.width, h |-> img.height]
    /\ pxToRemove' = img.width - toWidth
    /\ IF IsUpsizing(img.width - toWidth)
       THEN pc' = "error" /\ err' = UnsupportedOperation
       ELSE pc' = "loop" /\ err' = err
    /\ i' = 0
    /\ energyMap' = << >>
    /\ seam' = << >>
    /\ UNCHANGED <<img, toWidth, seamEnergies, lastMinCoordinate, orig>>

\* Lines 51-63: one turn of the loop.  Each of the three calls can throw,
\* and the third always does: deleteSeam is not defined, so line 59 throws
\* a ReferenceError once the energy map and the seam have been assigned,
\* and `size.w -= 1` (line 62) is never reached.
ResizeLoopBody ==
    /\ pc = "loop"
    /\ LoopContinues(i, pxToRemove)
    /\ LET em == calculateEnergyMap(img, size.w, size.h)
           sf == findLowEnergySeam(em.map, size.w, size.h)
       IN  IF em.err # NoError
           THEN /\ pc' = "error" /\ err' = em.err
                /\ UNCHANGED <<img, size, i, energyMap, seam>>
           ELSE IF sf.err # NoError
           THEN /\ pc' = "error" /\ err' = sf.err
                /\ energyMap' = <<em.map>>
                /\ UNCHANGED <<img, size, i, seam>>
           ELSE /\ pc' = "error" /\ err' = ReferenceError
                /\ energyMap' = <<em.map>>
                /\ seam' = <<sf.seam>>
                /\ UNCHANGED <<img, size, i>>
    /\ UNCHANGED <<toWidth, pxToRemove, seamEnergies, lastMinCoordinate, orig>>

\* Line 65: return {img, size}.
ResizeReturn ==
    /\ pc = "loop"
    /\ ~LoopContinues(i, pxToRemove)
    /\ pc' = "done"
    /\ UNCHANGED <<img, size, toWidth, pxToRemove, i, energyMap, seam,
                   seamEnergies, lastMinCoordinate, orig, err>>

NextResize == ResizeEnter \/ ResizeLoopBody \/ ResizeReturn

SpecResize == InitResize /\ [][NextResize]_vars

\* ------------------------------------------- calculateEnergyMap on its own
InitEnergy ==
    /\ \E W \in 1..MaxW, H \in 1..MaxH :
          /\ img \in ImagesOf(W, H)
          /\ \E w \in 0..W : size = [w |-> w, h |-> H]
    /\ toWidth = 0
    /\ pxToRemove = 0
    /\ i = 0
    /\ energyMap = << >>
    /\ seam = << >>
    /\ seamEnergies = << >>
    /\ lastMinCoordinate = NoCoordinate
    /\ orig = img.data
    /\ err = NoError
    /\ pc = "image"

BuildEnergyMap ==
    /\ pc = "image"
    /\ LET em == calculateEnergyMap(img, size.w, size.h)
       IN  IF em.err # NoError
           THEN pc' = "error" /\ err' = em.err /\ energyMap' = energyMap
           ELSE pc' = "mapped" /\ err' = err /\ energyMap' = <<em.map>>
    /\ UNCHANGED <<img, size, toWidth, pxToRemove, i, seam, seamEnergies,
                   lastMinCoordinate, orig>>

NextEnergy == BuildEnergyMap

SpecEnergy == InitEnergy /\ [][NextEnergy]_vars

\* -------------------------------------------- findLowEnergySeam on its own
InitSeam ==
    /\ img = [width |-> 0, height |-> 0, data |-> << >>]
    /\ \E w \in 0..MaxW, h \in 0..MaxMapH :
          /\ size = [w |-> w, h |-> h]
          /\ \E m \in EnergyMapsOf(w, h) : energyMap = <<m>>
    /\ toWidth = 0
    /\ pxToRemove = 0
    /\ i = 0
    /\ seam = << >>
    /\ seamEnergies = << >>
    /\ lastMinCoordinate = NoCoordinate
    /\ orig = << >>
    /\ err = NoError
    /\ pc = "map"

FindSeam ==
    /\ pc = "map"
    /\ LET sf == findLowEnergySeam(energyMap[1], size.w, size.h)
       IN  IF sf.err # NoError
           THEN /\ pc' = "error" /\ err' = sf.err
                /\ UNCHANGED <<seam, seamEnergies, lastMinCoordinate>>
           ELSE /\ pc' = "found" /\ err' = err
                /\ seam' = <<sf.seam>>
                /\ seamEnergies' = sf.seamEnergies
                /\ lastMinCoordinate' = sf.lastMinCoordinate
    /\ UNCHANGED <<img, size, toWidth, pxToRemove, i, energyMap, orig>>

NextSeam == FindSeam

SpecSeam == InitSeam /\ [][NextSeam]_vars

\* ================================================================ claims
Finished == pc \in {"done", "error"}

SizeAtCall == [w |-> img.width, h |-> img.height]

\* The image as it was when the operation was called.
OrigImage == [img EXCEPT !.data = orig]

\* C1: for every target width w with 0 <= w <= img.width, ResizeImageWidth
\* completes and returns the size {w, img.height}; while it loops, each turn
\* has taken exactly one from the tracked width and left the height alone.
ResizeReachesTargetWidth ==
    (0 <= toWidth /\ toWidth <= img.width) =>
        /\ pc = "loop" => size = [w |-> img.width - i, h |-> img.height]
        /\ Finished => pc = "done" /\ size = [w |-> toWidth, h |-> img.height]

\* C2: a target width above img.width is refused with the upsizing error and
\* nothing is touched: no energy map, no seam, the buffer and the size as
\* they were at the call.
UpsizingIsRefused ==
    (toWidth > img.width /\ pc # "start") =>
        /\ pc = "error"
        /\ err = UnsupportedOperation
        /\ energyMap = << >>
        /\ seam = << >>
        /\ i = 0
        /\ img.data = orig
        /\ size = SizeAtCall

UpsizingRefusedReached ==
    /\ pc = "error"
    /\ err = UnsupportedOperation
    /\ img.width >= 1 /\ img.height >= 1
    /\ toWidth = img.width + 1

\* C3: a negative target width is refused with an InvalidArgument error.
NegativeTargetIsRefused ==
    (toWidth < 0 /\ Finished) => (pc = "error" /\ err = "InvalidArgument")

\* C4: a target width equal to img.width is a no-op: the loop body never
\* runs, the call returns, every byte of the buffer is as it was and the
\* returned size is the original {width, height}.
SameWidthIsNoOp ==
    (toWidth = img.width /\ pc # "start") =>
        /\ pc # "error"
        /\ i = 0
        /\ energyMap = << >>
        /\ seam = << >>
        /\ img.data = orig
        /\ size = SizeAtCall

SameWidthReturned ==
    /\ pc = "done"
    /\ toWidth = img.width
    /\ img.width >= 2 /\ img.height >= 1
    /\ size = SizeAtCall

\* ---- findLowEnergySeam
SeamSearched == pc \in {"found", "error"}

Abs(n) == IF n < 0 THEN 0 - n ELSE n

\* C5: for a map with w >= 1 and h >= 1 the returned seam has h coordinates,
\* the one at position k (from 0) has y = k and x in [0, w), and the x of
\* consecutive rows differ by at most 1.
SeamIsTopToBottomPath ==
    (SeamSearched /\ size.w >= 1 /\ size.h >= 1) =>
        /\ pc = "found"
        /\ Len(seam[1]) = size.h
        /\ \A k \in 1..size.h :
              /\ seam[1][k].y = k - 1
              /\ seam[1][k].x \in 0..(size.w - 1)
        /\ \A k \in 1..(size.h - 1) : Abs(seam[1][k + 1].x - seam[1][k].x) <= 1

\* Top-to-bottom paths of a w by h map: one column per row, neighbouring rows
\* at most one column apart.
Paths(w, h) ==
    { f \in [0..(h - 1) -> 0..(w - 1)] :
        \A y \in 1..(h - 1) : Abs(f[y] - f[y - 1]) <= 1 }

RECURSIVE PathEnergy(_, _, _)
PathEnergy(map, f, y) ==
    IF y < 0 THEN 0 ELSE map[y][f[y]] + PathEnergy(map, f, y - 1)

\* The cells the seam names are cells of the map.
SeamInMap(s, w, h) ==
    \A k \in 1..Len(s) : s[k].x \in 0..(w - 1) /\ s[k].y \in 0..(h - 1)

RECURSIVE SeamEnergy(_, _)
SeamEnergy(map, s) ==
    IF s = << >> THEN 0 ELSE map[Head(s).y][Head(s).x] + SeamEnergy(map, Tail(s))

\* C6: for a map with w >= 1 and h >= 1 the energy summed over the cells of
\* the returned seam is at most that of every top-to-bottom path, and it is
\* the cumulative energy recorded at the chosen cell of the last row.
SeamHasMinimumEnergy ==
    (SeamSearched /\ size.w >= 1 /\ size.h >= 1) =>
        /\ pc = "found"
        /\ SeamInMap(seam[1], size.w, size.h)
        /\ \A f \in Paths(size.w, size.h) :
              SeamEnergy(energyMap[1], seam[1])
                  <= PathEnergy(energyMap[1], f, size.h - 1)
        /\ SeamEnergy(energyMap[1], seam[1])
              = seamEnergies[lastMinCoordinate.y][lastMinCoordinate.x].energy

\* The columns among x-1, x, x+1 that exist.
Candidates(x, w) == { k \in {x - 1, x, x + 1} : k >= 0 /\ k < w }

\* The smallest column of `cols` whose cumulative energy in `row` is minimal.
LeftmostMinimum(row, cols) ==
    CHOOSE k \in cols :
        /\ \A j \in cols : row[k].energy <= row[j].energy
        /\ \A j \in cols : row[j].energy = row[k].energy => k <= j

Uniform(map, w, h) ==
    \A y1 \in 0..(h - 1), y2 \in 0..(h - 1), x1 \in 0..(w - 1), x2 \in 0..(w - 1) :
        map[y1][x1] = map[y2][x2]

\* C7: ties go to the left: the predecessor recorded for a cell of a row
\* y >= 1 is the smallest candidate column of minimal cumulative energy in
\* row y-1, the backtracking start is the smallest column of minimal
\* cumulative energy in the last row, and on a map whose entries are all
\* equal the seam has x = 0 in each of its h coordinates.
TiesGoLeft ==
    (pc = "found" /\ size.w >= 1 /\ size.h >= 1) =>
        /\ \A y \in 1..(size.h - 1), x \in 0..(size.w - 1) :
              seamEnergies[y][x].previous =
                  Coordinate(LeftmostMinimum(seamEnergies[y - 1],
                                             Candidates(x, size.w)), y - 1)
        /\ lastMinCoordinate =
              Coordinate(LeftmostMinimum(seamEnergies[size.h - 1],
                                         0..(size.w - 1)), size.h - 1)
        /\ Uniform(energyMap[1], size.w, size.h) =>
              /\ Len(seam[1]) = size.h
              /\ \A k \in 1..size.h : seam[1][k].x = 0

UniformSeamFound ==
    /\ pc = "found"
    /\ size.w = MaxW /\ size.h >= 2
    /\ Uniform(energyMap[1], size.w, size.h)
    /\ \A k \in 1..size.h : seam[1][k].x = 0
    /\ seamEnergies[1][MaxW - 1].previous = Coordinate(MaxW - 2, 0)

\* C10: with h = 0 or w = 0 the search returns an empty seam and raises
\* nothing.
EmptyMapGivesEmptySeam ==
    (SeamSearched /\ (size.h = 0 \/ size.w = 0)) =>
        (pc = "found" /\ seam = << << >> >>)

\* ---- calculateEnergyMap
\* C8: for an image with w >= 1 and h >= 1 the map is built, and the square
\* of the energy of pixel (x, y) is the squared RGB distance to the left
\* neighbour (if x > 0) plus that to the right neighbour (if x + 1 < w).
EnergyIsTwoSided ==
    (pc \in {"mapped", "error"} /\ size.w >= 1 /\ size.h >= 1) =>
        /\ pc = "mapped"
        /\ \A y \in 0..(size.h - 1), x \in 0..(size.w - 1) :
              Sq(energyMap[1][y][x]) =
                  (IF x > 0
                   THEN ColorDistance(getPixel(img, x - 1, y), getPixel(img, x, y))
                   ELSE 0)
                + (IF x + 1 < size.w
                   THEN ColorDistance(getPixel(img, x + 1, y), getPixel(img, x, y))
                   ELSE 0)

\* ---- deleteSeam
\* The seam has one coordinate for each row of the image, with x in [0, w).
OnePerRow(s, w, h) ==
    /\ Len(s) = h
    /\ \A k \in 1..Len(s) : s[k].x \in 0..(w - 1)
    /\ \A y \in 0..(h - 1) : \E k \in 1..Len(s) : s[k].y = y

\* The position in the seam of the coordinate of row y.
SeamAt(s, y) == CHOOSE k \in 1..Len(s) : s[k].y = y

\* C9: once a seam with one coordinate per row has been found and handed to
\* deleteSeam, the call returns; after the first removal every row y keeps
\* the pixels left of the seam's x, holds the pixels of columns x+1 .. w-1
\* one column further left as whole four-channel pixels, and the width has
\* been decremented by the caller, not by deleteSeam.
SeamRemovedByLeftShift ==
    (seam # << >> /\ OnePerRow(seam[1], img.width, img.height)) =>
        /\ pc # "error"
        /\ i >= 1
        /\ size = [w |-> img.width - i, h |-> img.height]
        /\ i = 1 =>
              \A y \in 0..(img.height - 1), x \in 0..(img.width - 2) :
                  getPixel(img, x, y) =
                      IF x < seam[1][SeamAt(seam[1], y)].x
                      THEN getPixel(OrigImage, x, y)
                      ELSE getPixel(OrigImage, x + 1, y)

====
